---- MODULE Spec2Model ----
(***************************************************************************)
(* Buffered Reader / Writer of package bufio (src/bufio/bufio.go) and the  *)
(* fixed-width codec (src/unnamed/part_000).                               *)
(*                                                                         *)
(* Go slices are 0-based: buf is a function on 0..BufSize-1 and Slice      *)
(* gives buf[lo:hi] as a sequence.  An error value is a string, "nil" is   *)
(* Go's nil error.  Each public method is one action; a method that calls  *)
(* the wrapped stream several times is computed as the set of results the  *)
(* stream's answers can produce.                                           *)
(***************************************************************************)
EXTENDS Integers, Sequences, FiniteSets, TLC

\* len(b.buf), for the Reader and for the Writer
BufSize == 4
\* number of bytes the readable stream holds
MaxStream == 5

maxConsecutiveEmptyReads == 100

NoErr == "nil"
ErrBufferFull == "ErrBufferFull"
ErrNegativeCount == "ErrNegativeCount"
ErrNoProgress == "ErrNoProgress"
ErrUnexpectedEOF == "ErrUnexpectedEOF"
ErrShortWrite == "ErrShortWrite"
EOF == "EOF"

Min(a, b) == IF a < b THEN a ELSE b

\* s[lo:hi] of a 0-based array, as a sequence
Slice(s, lo, hi) == [i \in 1..(hi - lo) |-> s[lo + i - 1]]

\* copy(dst[at:], src): dst with the sequence src written from offset at
CopyAt(dst, at, src) ==
  [i \in DOMAIN dst |->
     IF i >= at /\ i < at + Len(src) THEN src[i - at + 1] ELSE dst[i]]

(***************************************************************************)
(* The readable stream (io.Reader): a fixed byte sequence, byte i being    *)
(* Data(i), handed out in chunks; pos is the number of bytes handed out.   *)
(***************************************************************************)
Data(i) == i + 1

\* errors a stream's Read can report
StreamErrs == {EOF}

\* the (count, error) pairs a Read(dst) with len(dst) = L can return
Answers(L, pos) ==
  {[n |-> k, err |-> e] : k \in 0..Min(L, MaxStream - pos),
                          e \in {NoErr} \cup StreamErrs}

\* a stream's answer that ends a retry loop: bytes, or an error
Progress(L, pos) == {a \in Answers(L, pos) : a.n > 0 \/ a.err # NoErr}

\* how many times in a row the stream answers (0, nil) before it answers
Stalls == {0, maxConsecutiveEmptyReads - 1, maxConsecutiveEmptyReads}

VARIABLES reader, rd, writer, wr, offered, acc, last, held, aborted, codec

vars == <<reader, rd, writer, wr, offered, acc, last, held, aborted, codec>>

\* Reader{buf: buf, rd: r}
NewReaderState(buf) == [buf |-> buf, r |-> 0, w |-> 0, err |-> NoErr]

\* the running context of one Reader method call
Ctx(b, s) == [b |-> b, pos |-> s, calls |-> 0, zeros |-> 0, fills |-> 0,
              panic |-> ""]

\* the count a Read(dst) answers with: a.n, capped by len(dst) = L and by
\* what the stream still holds
Count(a, L, pos) == Min(a.n, Min(L, MaxStream - pos))

\* the context after k more calls of b.rd.Read, the last handing out n
\* bytes with err and the ones before it answering (0, nil)
Called(x, k, n, err) ==
  [x EXCEPT !.pos = x.pos + n,
            !.calls = x.calls + k,
            !.zeros = x.zeros + (IF n = 0 /\ err = NoErr THEN k ELSE k - 1)]

\* the bytes a Read hands out: n bytes from stream offset pos
Chunk(pos, n) == [i \in 1..n |-> Data(pos + i - 1)]

\* fillLoop with the loop one iteration short (i > 1 for i > 0)
fillLoopShort(x, z, a) ==
  LET n == Count(a, BufSize - x.b.w, x.pos)
  IN IF z + 1 <= maxConsecutiveEmptyReads - 1 /\ (a.err # NoErr \/ n > 0)
     THEN [Called(x, z + 1, n, a.err) EXCEPT
             !.b.buf = CopyAt(x.b.buf, x.b.w, Chunk(x.pos, n)),
             !.b.w = x.b.w + n,
             !.b.err = a.err]
     ELSE [Called(x, maxConsecutiveEmptyReads - 1, 0, NoErr) EXCEPT
             !.b.err = ErrNoProgress]

\* the loop of fill, entered with context x: the stream answers (0, nil) z
\* times, then a.  An answer of (0, nil) changes nothing but the loop
\* counter, so the first z iterations only count; iteration z + 1, when
\* the loop has one, gets a; with bytes or an error it returns, otherwise
\* (and when there is no such iteration) the loop runs out.
fillLoop(x, z, a) ==
  LET n == Count(a, BufSize - x.b.w, x.pos)
  IN IF z + 1 <= maxConsecutiveEmptyReads /\ (a.err # NoErr \/ n > 0)
     THEN [Called(x, z + 1, n, a.err) EXCEPT
             !.b.buf = CopyAt(x.b.buf, x.b.w, Chunk(x.pos, n)),
             !.b.w = x.b.w + n,
             !.b.err = a.err]
     ELSE [Called(x, maxConsecutiveEmptyReads, 0, NoErr) EXCEPT
             !.b.err = ErrNoProgress]

\* the slide at the head of fill
\* the slide moving the cursors and not the bytes
fillSlideNoCopy(b) ==
  IF b.r > 0 THEN [b EXCEPT !.w = b.w - b.r, !.r = 0] ELSE b

\* fill without the slide
fillSlideNone(b) == b

fillSlide(b) ==
  IF b.r > 0
  THEN [b EXCEPT !.buf = CopyAt(b.buf, 0, Slice(b.buf, b.r, b.w)),
                 !.w = b.w - b.r, !.r = 0]
  ELSE b

fill(x, z, a) ==
  LET s == [x EXCEPT !.b = fillSlide(x.b), !.fills = x.fills + 1]
  IN IF s.b.w >= BufSize
     THEN [s EXCEPT !.panic = "bufio: tried to fill full buffer"]
     ELSE fillLoop(s, z, a)

\* every context one call of fill can end in
FillOutcomes(x) ==
  {fill(x, z, a) : z \in Stalls,
                   a \in Progress(BufSize - (x.b.w - x.b.r), x.pos)}

\* readErr on a context: <<the error returned, the context after>>
readErr(x) == <<x.b.err, [x EXCEPT !.b.err = NoErr]>>

\* what a call returns: the context after it, a count, bytes, an error and
\* (a fixed-width helper) a decoded value
Ret(x, n, d, err) == [x |-> x, n |-> n, d |-> d, err |-> err, val |-> <<>>]

RECURSIVE PeekFill(_, _)
PeekFill(x, n) ==
  IF x.b.w - x.b.r < n /\ x.b.err = NoErr /\ x.panic = ""
  THEN UNION {PeekFill(y, n) : y \in FillOutcomes(x)}
  ELSE {x}

PeekTail(x, n) ==
  LET avail == x.b.w - x.b.r
  IN IF avail < n
     THEN LET e == readErr(x)
          IN Ret(e[2], avail, Slice(x.b.buf, x.b.r, x.b.r + avail),
                 IF e[1] = NoErr THEN ErrBufferFull ELSE e[1])
     ELSE Ret(x, n, Slice(x.b.buf, x.b.r, x.b.r + n), NoErr)

\* Peek without the check of n against len(b.buf)
PeekNoCapCheck(x, n) ==
  IF n < 0 THEN {Ret(x, 0, <<>>, ErrNegativeCount)}
  ELSE {PeekTail(y, n) : y \in PeekFill(x, n)}

Peek(x, n) ==
  IF n < 0 THEN {Ret(x, 0, <<>>, ErrNegativeCount)}
  ELSE IF n > BufSize THEN {Ret(x, 0, <<>>, ErrBufferFull)}
  ELSE {PeekTail(y, n) : y \in PeekFill(x, n)}

\* Pop with b.r += n outside the test of err
PopAlwaysAdvance(x, n) ==
  {IF p.err = NoErr
   THEN [p EXCEPT !.x.b.r = p.x.b.r + n]
   ELSE Ret([p.x EXCEPT !.b.r = p.x.b.r + n], 0, <<>>, p.err)
   : p \in Peek(x, n)}

\* Pop without b.r += n
PopNoAdvance(x, n) ==
  {IF p.err = NoErr THEN p ELSE Ret(p.x, 0, <<>>, p.err) : p \in Peek(x, n)}

Pop(x, n) ==
  {IF p.err = NoErr
   THEN [p EXCEPT !.x.b.r = p.x.b.r + n]
   ELSE Ret(p.x, 0, <<>>, p.err) : p \in Peek(x, n)}

Buffered(b) == b.w - b.r

\* DiscardLoop with the test of b.err ahead of the test of remain
RECURSIVE DiscardLoopErrFirst(_, _, _)
DiscardLoopErrFirst(x, n, remain) ==
  LET filled == IF Buffered(x.b) = 0 THEN FillOutcomes(x) ELSE {x}
      step(y) ==
        IF y.panic # "" THEN {Ret(y, n - remain, <<>>, NoErr)}
        ELSE LET skip == Min(Buffered(y.b), remain)
                 y2 == [y EXCEPT !.b.r = y.b.r + skip]
                 rem2 == remain - skip
             IN IF y2.b.err # NoErr
                THEN LET e == readErr(y2)
                     IN {Ret(e[2], n - rem2, <<>>, e[1])}
                ELSE IF rem2 = 0 THEN {Ret(y2, n, <<>>, NoErr)}
                ELSE DiscardLoopErrFirst(y2, n, rem2)
  IN UNION {step(y) : y \in filled}

RECURSIVE DiscardLoop(_, _, _)
DiscardLoop(x, n, remain) ==
  LET filled == IF Buffered(x.b) = 0 THEN FillOutcomes(x) ELSE {x}
      step(y) ==
        IF y.panic # "" THEN {Ret(y, n - remain, <<>>, NoErr)}
        ELSE LET skip == Min(Buffered(y.b), remain)
                 y2 == [y EXCEPT !.b.r = y.b.r + skip]
                 rem2 == remain - skip
             IN IF rem2 = 0 THEN {Ret(y2, n, <<>>, NoErr)}
                ELSE IF y2.b.err # NoErr
                THEN LET e == readErr(y2)
                     IN {Ret(e[2], n - rem2, <<>>, e[1])}
                ELSE DiscardLoop(y2, n, rem2)
  IN UNION {step(y) : y \in filled}

Discard(x, n) ==
  IF n < 0 THEN {Ret(x, 0, <<>>, ErrNegativeCount)}
  ELSE IF n = 0 THEN {Ret(x, 0, <<>>, NoErr)}
  ELSE DiscardLoop(x, n, n)

\* n = copy(p, b.buf[b.r:b.w]); b.r += n
ReadCopy(x, lp) ==
  LET n == Min(lp, x.b.w - x.b.r)
  IN Ret([x EXCEPT !.b.r = x.b.r + n], n,
         Slice(x.b.buf, x.b.r, x.b.r + n), NoErr)

\* n, b.err = b.rd.Read(p); return n, b.readErr()
ReadDirect(x, lp) ==
  {LET n == Count(a, lp, x.pos)
       e == readErr([Called(x, 1, n, a.err) EXCEPT !.b.err = a.err])
   IN Ret(e[2], n, Chunk(x.pos, n), e[1])
   : a \in Answers(lp, x.pos)}

\* Read without the direct path for a large p
ReadNoBypass(x, lp) ==
  IF lp = 0 THEN LET e == readErr(x) IN {Ret(e[2], 0, <<>>, e[1])}
  ELSE IF x.b.r = x.b.w
  THEN IF x.b.err # NoErr
       THEN LET e == readErr(x) IN {Ret(e[2], 0, <<>>, e[1])}
       ELSE {IF y.panic # "" \/ y.b.r = y.b.w
             THEN LET e == readErr(y) IN Ret(e[2], 0, <<>>, e[1])
             ELSE ReadCopy(y, lp) : y \in FillOutcomes(x)}
  ELSE {ReadCopy(x, lp)}

\* Read without the second test of b.r == b.w, after fill
ReadNoRecheck(x, lp) ==
  IF lp = 0 THEN LET e == readErr(x) IN {Ret(e[2], 0, <<>>, e[1])}
  ELSE IF x.b.r = x.b.w
  THEN IF x.b.err # NoErr
       THEN LET e == readErr(x) IN {Ret(e[2], 0, <<>>, e[1])}
       ELSE IF lp >= BufSize THEN ReadDirect(x, lp)
       ELSE {ReadCopy(y, lp) : y \in FillOutcomes(x)}
  ELSE {ReadCopy(x, lp)}

Read(x, lp) ==
  IF lp = 0 THEN LET e == readErr(x) IN {Ret(e[2], 0, <<>>, e[1])}
  ELSE IF x.b.r = x.b.w
  THEN IF x.b.err # NoErr
       THEN LET e == readErr(x) IN {Ret(e[2], 0, <<>>, e[1])}
       ELSE IF lp >= BufSize THEN ReadDirect(x, lp)
       ELSE {IF y.panic # "" \/ y.b.r = y.b.w
             THEN LET e == readErr(y) IN Ret(e[2], 0, <<>>, e[1])
             ELSE ReadCopy(y, lp) : y \in FillOutcomes(x)}
  ELSE {ReadCopy(x, lp)}

(***************************************************************************)
(* io.ReadFull(reader.rd, b) with len(b) = n: reads until n bytes are in,  *)
(* or an error.  got is the count so far and d the bytes so far.  Its loop *)
(* has no limit on answers of (0, nil), which change nothing in it: the    *)
(* answers drawn are those that advance or end it.                         *)
(***************************************************************************)
RECURSIVE ReadFullLoop(_, _, _, _)
ReadFullLoop(x, n, got, d) ==
  IF got < n
  THEN UNION {LET k == Count(a, n - got, x.pos)
                  y == Called(x, 1, k, a.err)
                  d2 == d \o Chunk(x.pos, k)
              IN IF a.err # NoErr
                 THEN {Ret(y, got + k, d2,
                           IF got + k >= n THEN NoErr
                           ELSE IF got + k > 0 /\ a.err = EOF
                           THEN ErrUnexpectedEOF ELSE a.err)}
                 ELSE ReadFullLoop(y, n, got + k, d2)
              : a \in Progress(n - got, x.pos)}
  ELSE {Ret(x, got, d, NoErr)}

\* ReadBytes that hands out the bytes of the buffer when it holds n of them
ReadBytesBuffered(x, n) ==
  IF n <= Buffered(x.b)
  THEN {Ret([x EXCEPT !.b.err = NoErr], n,
            Slice(x.b.buf, x.b.r, x.b.r + n), NoErr)}
  ELSE {Ret([f.x EXCEPT !.b.err = f.err],
            n, f.d \o [i \in 1..(n - f.n) |-> 0], f.err)
        : f \in ReadFullLoop(x, n, 0, <<>>)}

\* b = make([]byte, n); _, reader.err = io.ReadFull(reader.rd, b)
ReadBytes(x, n) ==
  {Ret([f.x EXCEPT !.b.err = f.err],
       n, f.d \o [i \in 1..(n - f.n) |-> 0], f.err)
   : f \in ReadFullLoop(x, n, 0, <<>>)}

ReadString(x, n) ==
  {IF f.err = NoErr THEN f ELSE Ret(f.x, 0, <<>>, f.err)
   : f \in ReadBytes(x, n)}

(***************************************************************************)
(* The codec (part_000, over encoding/binary).  A decoded value is its bit *)
(* pattern as 16-bit limbs, most significant first (one limb below 256 for *)
(* a single byte), so 32- and 64-bit values stay exact.                    *)
(***************************************************************************)
\* binary.BigEndian.UintN(b)
GetUintBE(b) ==
  IF Len(b) = 1 THEN <<b[1]>>
  ELSE [j \in 1..(Len(b) \div 2) |-> b[2 * j - 1] * 256 + b[2 * j]]

\* binary.LittleEndian.UintN(b)
GetUintLE(b) ==
  IF Len(b) = 1 THEN <<b[1]>>
  ELSE [j \in 1..(Len(b) \div 2) |->
          b[Len(b) - 2 * j + 2] * 256 + b[Len(b) - 2 * j + 1]]

GetUint(order, b) == IF order = "BE" THEN GetUintBE(b) ELSE GetUintLE(b)

(***************************************************************************)
(* A float is its sign, its biased exponent and its fraction, the fraction *)
(* as 16-bit limbs under a first limb that holds its top bits: 7 of the 23 *)
(* of a float32, 4 of the 52 of a float64.  The first limb of the bit      *)
(* pattern is sign, exponent and those top bits, in this order.            *)
(***************************************************************************)
\* 2^(number of fraction bits in the first limb of the pattern)
FracTop(width) == IF width = 4 THEN 128 ELSE 16

\* math.Float32frombits(u), math.Float64frombits(u)
Floatfrombits(u, width) ==
  [sign |-> u[1] \div 32768,
   exp |-> (u[1] % 32768) \div FracTop(width),
   frac |-> <<u[1] % FracTop(width)>> \o Tail(u)]

\* math.Float32bits(f), math.Float64bits(f)
Floatbits(f, width) ==
  <<f.sign * 32768 + f.exp * FracTop(width) + f.frac[1]>> \o Tail(f.frac)

\* GetFloatN(b) of the order
GetFloat(order, b) == Floatfrombits(GetUint(order, b), Len(b))

\* the GetX(b) of helper h
Get(h, b) ==
  IF h.kind = "float" THEN GetFloat(h.order, b) ELSE GetUint(h.order, b)

\* the value a read helper returns with an error: 0, or -1 when signed
Sentinel(h) ==
  IF h.kind = "int"
  THEN IF h.width = 1 THEN <<255>> ELSE [j \in 1..(h.width \div 2) |-> 65535]
  ELSE IF h.kind = "float"
  THEN Floatfrombits([j \in 1..(h.width \div 2) |-> 0], h.width)
  ELSE IF h.width = 1 THEN <<0>> ELSE [j \in 1..(h.width \div 2) |-> 0]

\* the fixed-width helpers the model calls, one or two per width: all are
\* Pop/Peek of the width followed by the codec
Helper(w, o, k) == [width |-> w, order |-> o, kind |-> k]

Helpers ==
  {Helper(1, "BE", "uint"), Helper(1, "BE", "int"),
   Helper(2, "BE", "uint"), Helper(2, "LE", "uint"), Helper(2, "LE", "int"),
   Helper(4, "BE", "uint"), Helper(4, "LE", "float"),
   Helper(8, "BE", "uint")}

\* if b, err := reader.Pop(width); err == nil { return GetX(b), nil }
ReadFixed(x, h) ==
  {[p EXCEPT !.val = IF p.err = NoErr THEN Get(h, p.d)
                     ELSE Sentinel(h)]
   : p \in Pop(x, h.width)}

(***************************************************************************)
(* The Reader's actions.  A call is made when the caller holds no result   *)
(* (last is Idle) and leaves in last what was called, what it returned and *)
(* the state it was called in (b0, pos0, sink0, held0); Returned hands     *)
(* control back.  held is the window of the latest Peek, valid until the   *)
(* next call.                                                              *)
(***************************************************************************)
NoHelper == [width |-> 0, order |-> "", kind |-> ""]

NoWindow == [n |-> -1, d |-> <<>>]

Idle == [obj |-> "", op |-> "none", arg |-> 0, h |-> NoHelper, n |-> 0,
         d |-> <<>>, val |-> <<>>, err |-> NoErr, calls |-> 0, zeros |-> 0,
         fills |-> 0, log |-> <<>>, b0 |-> <<>>, pos0 |-> 0,
         sink0 |-> <<>>, held0 |-> NoWindow]

Record(op, arg, h, res) ==
  [obj |-> "Reader", op |-> op, arg |-> arg, h |-> h, n |-> res.n,
   d |-> res.d, val |-> res.val, err |-> res.err, calls |-> res.x.calls,
   zeros |-> res.x.zeros, fills |-> res.x.fills, log |-> <<>>,
   b0 |-> reader, pos0 |-> rd, sink0 |-> <<>>, held0 |-> held]

\* requested counts and destination lengths
Counts == -1..(BufSize + 1)
Lens == 0..(BufSize + 1)

ReaderCall(op, arg, h, results) ==
  /\ aborted = ""
  /\ last.op = "none"
  /\ \E res \in results :
       /\ reader' = res.x.b
       /\ rd' = res.x.pos
       /\ aborted' = res.x.panic
       /\ last' = Record(op, arg, h, res)
       /\ held' = IF op = "Peek" /\ res.err = NoErr
                  THEN [n |-> arg, d |-> res.d] ELSE NoWindow
  /\ UNCHANGED <<writer, wr, offered, acc, codec>>

Here == Ctx(reader, rd)

RPeek == \E n \in Counts : ReaderCall("Peek", n, NoHelper, Peek(Here, n))

RPop == \E n \in Counts : ReaderCall("Pop", n, NoHelper, Pop(Here, n))

RDiscard ==
  \E n \in Counts : ReaderCall("Discard", n, NoHelper, Discard(Here, n))

RRead == \E lp \in Lens : ReaderCall("Read", lp, NoHelper, Read(Here, lp))

RReadBytes ==
  \E n \in Lens : ReaderCall("ReadBytes", n, NoHelper, ReadBytes(Here, n))

RReadString ==
  \E n \in Lens : ReaderCall("ReadString", n, NoHelper, ReadString(Here, n))

RReadFixed ==
  \E h \in Helpers : ReaderCall("ReadFixed", h.width, h, ReadFixed(Here, h))

\* b.reset(buf, r): every field zeroed but the buffer and the stream, which
\* are the ones given
reset(buf, r) ==
  /\ aborted = ""
  /\ last.op = "none"
  /\ reader' = NewReaderState(buf)
  /\ rd' = r
  /\ held' = NoWindow
  /\ UNCHANGED <<writer, wr, offered, acc, aborted, codec>>

\* Reset(r) keeps b.buf as it is; here r is the stream the Reader already
\* wraps, which goes on from where it was
RReset ==
  /\ reset(reader.buf, rd)
  /\ last' = [Idle EXCEPT !.obj = "Reader", !.op = "Reset", !.b0 = reader,
                          !.pos0 = rd]

\* ResetBuffer(r, buf) with a new stream and a buffer fresh from make
RResetBuffer ==
  /\ reset([i \in 0..(BufSize - 1) |-> 0], 0)
  /\ last' = [Idle EXCEPT !.obj = "Reader", !.op = "ResetBuffer",
                          !.b0 = reader, !.pos0 = rd]

\* the call has returned: the caller has its result and may call again
Returned ==
  /\ last.op # "none"
  /\ last' = Idle
  /\ UNCHANGED <<reader, rd, writer, wr, offered, acc, held, aborted, codec>>

(***************************************************************************)
(* The Writer.  The sink (io.Writer) is the sequence of bytes it has       *)
(* taken; a Write(src) answers (k, err) and has taken src[:k].  The caller *)
(* writes the bytes 1, 2, 3, ... in order and goes on after the last byte  *)
(* the Writer reported as accepted: offered counts those bytes, acc is     *)
(* their sequence.                                                         *)
(***************************************************************************)
ErrSink == "ErrSink"

\* the (count, error) pairs a Write(src) with len(src) = L can return
SinkAnswers(L) == {[n |-> k, err |-> e] : k \in 0..L, e \in {NoErr, ErrSink}}

\* the running context of one Writer method call
\* log keeps, for each call of b.wr.Write in the method call, the b.n it was
\* made at, the length it was given and the (n, err) it answered
WCtx(b, sink) ==
  [b |-> b, sink |-> sink, calls |-> 0, panic |-> "", log |-> <<>>]

Available(b) == BufSize - b.n

WBuffered(b) == b.n

\* b.wr.Write(src) answering a: the context after, the sink having taken
\* src[:a.n]
SinkWrite(x, src, a) ==
  [x EXCEPT !.sink = x.sink \o SubSeq(src, 1, a.n),
            !.calls = x.calls + 1,
            !.log = Append(x.log, [pending |-> x.b.n, len |-> Len(src),
                                   n |-> a.n, err |-> a.err])]

\* flush without the copy that moves the unwritten rest to the front
flushWriteNoCompact(x, a) ==
  LET n == a.n
      err == IF n < x.b.n /\ a.err = NoErr THEN ErrShortWrite ELSE a.err
      y == SinkWrite(x, Slice(x.b.buf, 0, x.b.n), a)
  IN IF err # NoErr
     THEN [y EXCEPT !.b.n = x.b.n - n, !.b.err = err]
     ELSE [y EXCEPT !.b.n = 0]

\* flush with b.n += n for b.n -= n where it keeps the unwritten rest
flushWriteAdds(x, a) ==
  LET n == a.n
      err == IF n < x.b.n /\ a.err = NoErr THEN ErrShortWrite ELSE a.err
      y == SinkWrite(x, Slice(x.b.buf, 0, x.b.n), a)
  IN IF err # NoErr
     THEN [y EXCEPT !.b.buf = IF n > 0 /\ n < x.b.n
                              THEN CopyAt(x.b.buf, 0, Slice(x.b.buf, n, x.b.n))
                              ELSE x.b.buf,
                    !.b.n = x.b.n + n,
                    !.b.err = err]
     ELSE [y EXCEPT !.b.n = 0]

\* flush when it calls the sink, which answers a
flushWrite(x, a) ==
  LET n == a.n
      err == IF n < x.b.n /\ a.err = NoErr THEN ErrShortWrite ELSE a.err
      y == SinkWrite(x, Slice(x.b.buf, 0, x.b.n), a)
  IN IF err # NoErr
     THEN [y EXCEPT !.b.buf = IF n > 0 /\ n < x.b.n
                              THEN CopyAt(x.b.buf, 0, Slice(x.b.buf, n, x.b.n))
                              ELSE x.b.buf,
                    !.b.n = x.b.n - n,
                    !.b.err = err]
     ELSE [y EXCEPT !.b.n = 0]

\* flush without the test of b.err at its head
flushNoSticky(x) ==
  IF x.b.n = 0 THEN {<<NoErr, x>>}
  ELSE {LET y == flushWrite(x, a) IN <<y.b.err, y>> : a \in SinkAnswers(x.b.n)}

\* every <<error returned, context after>> one call of flush can end in
flush(x) ==
  IF x.b.err # NoErr THEN {<<x.b.err, x>>}
  ELSE IF x.b.n = 0 THEN {<<NoErr, x>>}
  ELSE {LET y == flushWrite(x, a) IN <<y.b.err, y>> : a \in SinkAnswers(x.b.n)}

Flush(x) == {Ret(f[2], 0, <<>>, f[1]) : f \in flush(x)}

\* p[n:]
Drop(p, n) == SubSeq(p, n + 1, Len(p))

\* the loop of Write flushing what is pending without first topping the
\* buffer up from p
RECURSIVE WriteLoopFlushFirst(_, _, _)
WriteLoopFlushFirst(x, p, nn) ==
  IF Len(p) > Available(x.b) /\ x.b.err = NoErr
  THEN IF WBuffered(x.b) = 0
       THEN UNION {IF a.n = 0 /\ a.err = NoErr
                   THEN {<<[x EXCEPT !.panic = "Write does not return"],
                           p, nn>>}
                   ELSE WriteLoopFlushFirst(
                          [SinkWrite(x, p, a) EXCEPT !.b.err = a.err],
                          Drop(p, a.n), nn + a.n)
                   : a \in SinkAnswers(Len(p))}
       ELSE UNION {WriteLoopFlushFirst(f[2], p, nn) : f \in flush(x)}
  ELSE {<<x, p, nn>>}

\* the loop of Write leaving at once when the direct write fails, the
\* count of that write not added to nn
RECURSIVE WriteLoopBreak(_, _, _)
WriteLoopBreak(x, p, nn) ==
  IF Len(p) > Available(x.b) /\ x.b.err = NoErr
  THEN IF WBuffered(x.b) = 0
       THEN UNION {IF a.n = 0 /\ a.err = NoErr
                   THEN {<<[x EXCEPT !.panic = "Write does not return"],
                           p, nn>>}
                   ELSE IF a.err # NoErr
                   THEN {<<[SinkWrite(x, p, a) EXCEPT !.b.err = a.err],
                           Drop(p, a.n), nn>>}
                   ELSE WriteLoopBreak(SinkWrite(x, p, a),
                                       Drop(p, a.n), nn + a.n)
                   : a \in SinkAnswers(Len(p))}
       ELSE LET n == Min(Len(p), Available(x.b))
                y == [x EXCEPT !.b.buf = CopyAt(x.b.buf, x.b.n,
                                                SubSeq(p, 1, n)),
                               !.b.n = x.b.n + n]
            IN UNION {WriteLoopBreak(f[2], Drop(p, n), nn + n)
                      : f \in flush(y)}
  ELSE {<<x, p, nn>>}

\* the loop of Write: every <<context, rest of p, nn>> it can leave.  On
\* the direct path an answer of (0, nil) changes nothing, so the iteration
\* repeats: a sink that goes on answering so keeps Write from returning.
RECURSIVE WriteLoop(_, _, _)
WriteLoop(x, p, nn) ==
  IF Len(p) > Available(x.b) /\ x.b.err = NoErr
  THEN IF WBuffered(x.b) = 0
       THEN UNION {IF a.n = 0 /\ a.err = NoErr
                   THEN {<<[x EXCEPT !.panic = "Write does not return"],
                           p, nn>>}
                   ELSE WriteLoop([SinkWrite(x, p, a) EXCEPT !.b.err = a.err],
                                  Drop(p, a.n), nn + a.n)
                   : a \in SinkAnswers(Len(p))}
       ELSE LET n == Min(Len(p), Available(x.b))
                y == [x EXCEPT !.b.buf = CopyAt(x.b.buf, x.b.n,
                                                SubSeq(p, 1, n)),
                               !.b.n = x.b.n + n]
            IN UNION {WriteLoop(f[2], Drop(p, n), nn + n) : f \in flush(y)}
  ELSE {<<x, p, nn>>}

\* Write without the test of b.err after its loop
WriteNoErrCheck(x, p) ==
  {LET y == l[1]
       rest == l[2]
       n == Min(Len(rest), Available(y.b))
   IN IF y.panic # "" THEN Ret(y, l[3], <<>>, y.b.err)
      ELSE Ret([y EXCEPT !.b.buf = CopyAt(y.b.buf, y.b.n, SubSeq(rest, 1, n)),
                         !.b.n = y.b.n + n],
               l[3] + n, <<>>, NoErr)
   : l \in WriteLoop(x, p, 0)}

Write(x, p) ==
  {LET y == l[1]
       rest == l[2]
       n == Min(Len(rest), Available(y.b))
   IN IF y.panic # "" \/ y.b.err # NoErr THEN Ret(y, l[3], <<>>, y.b.err)
      ELSE Ret([y EXCEPT !.b.buf = CopyAt(y.b.buf, y.b.n, SubSeq(rest, 1, n)),
                         !.b.n = y.b.n + n],
               l[3] + n, <<>>, NoErr)
   : l \in WriteLoop(x, p, 0)}

RECURSIVE WPeekFlush(_, _)
WPeekFlush(x, n) ==
  IF Available(x.b) < n /\ x.b.err = NoErr
  THEN UNION {WPeekFlush(f[2], n) : f \in flush(x)}
  ELSE {x}

\* Peek of the Writer: the window is b.buf[b.n : b.n+n] as it stands
WPeek(x, n) ==
  IF n < 0 THEN {Ret(x, 0, <<>>, ErrNegativeCount)}
  ELSE IF n > BufSize THEN {Ret(x, 0, <<>>, ErrBufferFull)}
  ELSE {IF y.b.err # NoErr THEN Ret(y, 0, <<>>, y.b.err)
        ELSE Ret([y EXCEPT !.b.n = y.b.n + n], n,
                 Slice(y.b.buf, y.b.n, y.b.n + n), NoErr)
        : y \in WPeekFlush(x, n)}

\* byte i (0 the most significant) of the value with limbs v
ByteOf(v, i) ==
  IF i % 2 = 0 THEN (v[(i \div 2) + 1] \div 256) % 256
  ELSE v[(i \div 2) + 1] % 256

\* binary.BigEndian.PutUintN(b, v), as the bytes put (b[0] = v for a byte)
PutUintBE(v, width) ==
  IF width = 1 THEN <<v[1] % 256>>
  ELSE [i \in 1..width |-> ByteOf(v, i - 1)]

\* PutUintN of LittleEndian putting the bytes in the order of BigEndian
PutUintLEAsBE(v, width) ==
  IF width = 1 THEN <<v[1] % 256>>
  ELSE [i \in 1..width |-> ByteOf(v, i - 1)]

\* binary.LittleEndian.PutUintN(b, v), as the bytes put
PutUintLE(v, width) ==
  IF width = 1 THEN <<v[1] % 256>>
  ELSE [i \in 1..width |-> ByteOf(v, width - i)]

PutUint(order, v, width) ==
  IF order = "BE" THEN PutUintBE(v, width) ELSE PutUintLE(v, width)

\* PutFloatN(b, v) of the order, as the bytes put
PutFloat(order, v, width) == PutUint(order, Floatbits(v, width), width)

\* the PutX(b, v) of helper h, as the bytes put
Put(h, v) ==
  IF h.kind = "float" THEN PutFloat(h.order, v, h.width)
  ELSE PutUint(h.order, v, h.width)

\* if b, err := writer.Peek(width); err == nil { PutX(b, v); return width, nil }
WriteFixed(x, h, v) ==
  {IF p.err # NoErr THEN [p EXCEPT !.n = -1, !.val = v]
   ELSE LET d == Put(h, v)
        IN [p EXCEPT !.x.b.buf = CopyAt(p.x.b.buf, p.x.b.n - h.width, d),
                     !.d = d, !.val = v]
   : p \in WPeek(x, h.width)}

(***************************************************************************)
(* The Writer's actions.                                                   *)
(***************************************************************************)
\* total number of bytes the caller gets the Writer to accept
MaxWrite == 6

\* the next k bytes the caller writes
Payload(k) == [i \in 1..k |-> offered + i]

\* the value a write helper of the width is given: its bytes, most
\* significant first, are the caller's next bytes
ValueOf(width) ==
  IF width = 1 THEN <<offered + 1>>
  ELSE [j \in 1..(width \div 2) |->
          (offered + 2 * j - 1) * 256 + offered + 2 * j]

\* the value helper h is given
HelperValue(h) ==
  IF h.kind = "float" THEN Floatfrombits(ValueOf(h.width), h.width)
  ELSE ValueOf(h.width)

WHere == WCtx(writer, wr)

\* the bytes a call reports as accepted: the first nn of p for Write, the
\* window the caller has filled for Peek and the helpers
Took(op, k, res) ==
  IF op = "Write" THEN SubSeq(Payload(k), 1, res.n) ELSE res.d

WriterCall(op, arg, h, k, results) ==
  /\ aborted = ""
  /\ last.op = "none"
  /\ offered + k <= MaxWrite
  /\ \E res \in results :
       /\ writer' = res.x.b
       /\ wr' = res.x.sink
       /\ aborted' = res.x.panic
       /\ acc' = acc \o Took(op, k, res)
       /\ last' = [obj |-> "Writer", op |-> op, arg |-> arg, h |-> h,
                   n |-> res.n, d |-> res.d, val |-> res.val,
                   err |-> res.err, calls |-> res.x.calls, zeros |-> 0,
                   fills |-> 0, log |-> res.x.log, b0 |-> writer,
                   pos0 |-> offered,
                   sink0 |-> wr, held0 |-> NoWindow]
       /\ offered' = offered + Len(Took(op, k, res))
  /\ UNCHANGED <<reader, rd, held, codec>>

WWrite ==
  \E k \in 0..(BufSize + 2) :
    WriterCall("Write", k, NoHelper, k, Write(WHere, Payload(k)))

WFlush == WriterCall("Flush", 0, NoHelper, 0, Flush(WHere))

\* Peek(n) called by the caller itself, which then fills the window it got
\* with its next n bytes
PeekAndFill(x, n) ==
  {IF p.err # NoErr THEN p
   ELSE [p EXCEPT !.x.b.buf = CopyAt(p.x.b.buf, p.x.b.n - n, Payload(n)),
                  !.d = Payload(n)]
   : p \in WPeek(x, n)}

WPeekCall ==
  \E n \in Counts :
    LET k == IF n >= 0 /\ n <= BufSize THEN n ELSE 0
    IN WriterCall("Peek", n, NoHelper, k, PeekAndFill(WHere, n))

WWriteFixed ==
  \E h \in Helpers :
    WriterCall("WriteFixed", h.width, h, h.width,
               WriteFixed(WHere, h, HelperValue(h)))

\* b.err = nil; b.n = 0; b.wr = w (and b.buf = buf): the bytes that were
\* pending are dropped
wreset(buf, w) ==
  /\ aborted = ""
  /\ last.op = "none"
  /\ writer' = [buf |-> buf, n |-> 0, err |-> NoErr]
  /\ wr' = w
  /\ acc' = w
  /\ UNCHANGED <<reader, rd, held, aborted, codec>>

\* Reset(w), w being the sink the Writer already wraps
WReset ==
  /\ wreset(writer.buf, wr)
  /\ last' = [Idle EXCEPT !.obj = "Writer", !.op = "Reset", !.b0 = writer,
                          !.sink0 = wr]
  /\ UNCHANGED offered

\* ResetBuffer(w, buf) with a new sink and a buffer fresh from make; the
\* caller starts its bytes over
WResetBuffer ==
  /\ wreset([i \in 0..(BufSize - 1) |-> 0], <<>>)
  /\ last' = [Idle EXCEPT !.obj = "Writer", !.op = "ResetBuffer",
                          !.b0 = writer, !.sink0 = wr]
  /\ offered' = 0

(***************************************************************************)
(* The codec on its own: a caller encodes a value with PutX and decodes    *)
(* the bytes with the GetX of the same width, order and kind.  codec holds *)
(* the value, the bytes and the value decoded.                             *)
(***************************************************************************)
NoCodec ==
  [step |-> "idle", h |-> NoHelper, v |-> <<>>, b |-> <<>>, out |-> <<>>]

\* GetUint16BE .. PutFloat64LE, by width, order and kind
CodecHelpers ==
  {Helper(w, o, "uint") : w \in {2, 4, 8}, o \in {"BE", "LE"}}
    \cup {Helper(w, o, "float") : w \in {4, 8}, o \in {"BE", "LE"}}

\* the limbs the unsigned values are made of: 0, the largest, the top bit
\* alone, and limbs whose two bytes differ
LimbValues == {0, 1, 255, 258, 32768, 65535}

UintValues(width) == [1..(width \div 2) -> LimbValues]

\* the exponent of all ones, that of the infinities and the NaNs
ExpMax(width) == (32768 \div FracTop(width)) - 1

\* zeros, subnormals, normal numbers, infinities and NaNs (quiet and
\* signalling, with payloads), of either sign
FloatValues(width) ==
  {[sign |-> s, exp |-> e, frac |-> <<t>> \o f] :
     s \in {0, 1},
     e \in {0, 1, ExpMax(width) \div 2, ExpMax(width)},
     t \in {0, 1, FracTop(width) \div 2, FracTop(width) - 1},
     f \in [1..((width \div 2) - 1) -> {0, 1, 65535}]}

Values(h) ==
  IF h.kind = "float" THEN FloatValues(h.width) ELSE UintValues(h.width)

CodecUnchanged ==
  UNCHANGED <<reader, rd, writer, wr, offered, acc, last, held, aborted>>

\* PutX(b, v)
CodecPut ==
  /\ codec.step = "idle"
  /\ \E h \in CodecHelpers : \E v \in Values(h) :
       codec' = [step |-> "put", h |-> h, v |-> v, b |-> Put(h, v),
                 out |-> <<>>]
  /\ CodecUnchanged

\* GetX(b) of the bytes put
CodecGet ==
  /\ codec.step = "put"
  /\ codec' = [codec EXCEPT !.step = "got", !.out = Get(codec.h, codec.b)]
  /\ CodecUnchanged

\* the caller goes on to another value
CodecDone ==
  /\ codec.step = "got"
  /\ codec' = NoCodec
  /\ CodecUnchanged

NextCodec == CodecPut \/ CodecGet \/ CodecDone

Init ==
  /\ reader = NewReaderState([i \in 0..(BufSize - 1) |-> 0])
  /\ rd = 0
  /\ writer = [buf |-> [i \in 0..(BufSize - 1) |-> 0], n |-> 0, err |-> NoErr]
  /\ wr = <<>>
  /\ offered = 0
  /\ acc = <<>>
  /\ last = Idle
  /\ held = NoWindow
  /\ aborted = ""
  /\ codec = NoCodec

SpecCodec == Init /\ [][NextCodec]_vars

Next ==
  \/ RPeek
  \/ RPop
  \/ RDiscard
  \/ RRead
  \/ RReadBytes
  \/ RReadString
  \/ RReadFixed
  \/ RReset
  \/ RResetBuffer
  \/ Returned

Spec == Init /\ [][Next]_vars

\* A Reader read through its buffer only: Peek, Pop, Discard, Read and the
\* fixed-width helpers, on one stream
NextStream ==
  \/ RPeek
  \/ RPop
  \/ RDiscard
  \/ RRead
  \/ RReadFixed
  \/ Returned

SpecStream == Init /\ [][NextStream]_vars

NextWriter ==
  \/ WWrite
  \/ WFlush
  \/ WPeekCall
  \/ WWriteFixed
  \/ WReset
  \/ WResetBuffer
  \/ Returned

SpecWriter == Init /\ [][NextWriter]_vars

\* A Reader and a Writer share no state, so a run that uses both is a run of
\* each: either is used while the other is as constructed.
FreshReader ==
  /\ reader = NewReaderState([i \in 0..(BufSize - 1) |-> 0])
  /\ rd = 0
  /\ held = NoWindow

FreshWriter ==
  /\ writer = [buf |-> [i \in 0..(BufSize - 1) |-> 0], n |-> 0, err |-> NoErr]
  /\ wr = <<>>
  /\ offered = 0
  /\ acc = <<>>

NextBoth ==
  \/ FreshWriter /\ Next
  \/ FreshReader /\ NextWriter

SpecBoth == Init /\ [][NextBoth]_vars

(***************************************************************************)
(* Properties.  They speak of the call recorded in last.                   *)
(***************************************************************************)
ReaderOps ==
  {"Peek", "Pop", "Discard", "Read", "ReadBytes", "ReadString", "ReadFixed"}

WriterOps == {"Write", "Flush", "Peek", "WriteFixed"}

ReaderCalled == last.obj = "Reader" /\ last.op \in ReaderOps

WriterCalled == last.obj = "Writer" /\ last.op \in WriterOps

\* the errors a failed read of the stream leaves in b.err
ReadErrs == StreamErrs \cup {ErrNoProgress, ErrUnexpectedEOF}

\* bytes taken from the stream and no longer in the buffer
Consumed(b, pos) == pos - Buffered(b)

\* C1: an error of the stream that a Reader call returns is no longer stored
\* on the Reader once the call has returned, so that no later call returns
\* it a second time.
C1_ReturnedErrorIsCleared ==
  (ReaderCalled /\ last.err \in ReadErrs) => reader.err = NoErr

\* C2 as stated: every Write, Flush, Peek and write helper called with the
\* Writer's error set returns that error, accepts nothing, calls the sink
\* not at all and leaves the Writer as it was.
C2_StickyForEveryCall ==
  (WriterCalled /\ last.b0.err # NoErr) =>
    /\ last.err = last.b0.err
    /\ last.calls = 0
    /\ last.n <= 0 /\ last.d = <<>>
    /\ writer = last.b0 /\ wr = last.sink0 /\ offered = last.pos0

\* C2 amended: the same for Write, Flush, and Peek and the helpers with a
\* count in 0..len(buf); a Peek or helper with a count outside it returns
\* ErrNegativeCount or ErrBufferFull instead, still with no call to the sink
\* and no change.
C2_StickyForCallsInRange ==
  (WriterCalled /\ last.b0.err # NoErr) =>
    /\ last.err = IF last.op \in {"Peek", "WriteFixed"} /\ last.arg < 0
                  THEN ErrNegativeCount
                  ELSE IF last.op \in {"Peek", "WriteFixed"}
                          /\ last.arg > BufSize
                  THEN ErrBufferFull
                  ELSE last.b0.err
    /\ last.calls = 0
    /\ last.n <= 0 /\ last.d = <<>>
    /\ writer = last.b0 /\ wr = last.sink0 /\ offered = last.pos0

C2_Witness ==
  /\ WriterCalled /\ last.op = "Write" /\ last.arg > 0
  /\ last.b0.err = ErrShortWrite /\ last.b0.n > 0
  /\ last.err = ErrShortWrite

\* C3: 0 <= r <= w <= len(buf) after every call of the Reader.
C3_ReaderCursors ==
  0 <= reader.r /\ reader.r <= reader.w /\ reader.w <= BufSize

C3_Witness ==
  /\ ReaderCalled /\ last.op = "Discard"
  /\ last.err # NoErr /\ last.fills > 0
  /\ reader.r > 0

\* C4: 0 <= n <= len(buf) after every call of the Writer.
C4_WriterPending == 0 <= writer.n /\ writer.n <= BufSize

C4_Witness ==
  /\ WriterCalled /\ last.op = "Write" /\ last.arg > 0
  /\ last.b0.err # NoErr
  /\ writer.n > 0

\* C5: a Pop(n) that comes right after a successful Peek(n) returns the
\* bytes that Peek returned, with no error and no call of the stream, and
\* moves r, and Buffered(), by exactly n; a Peek consumes nothing, and nor
\* does a Pop that fails.
C5_PeekThenPop ==
  /\ (ReaderCalled /\ last.op = "Pop"
      /\ last.held0 # NoWindow /\ last.held0.n = last.arg) =>
       /\ last.err = NoErr
       /\ last.d = last.held0.d /\ Len(last.d) = last.arg
       /\ last.calls = 0
       /\ reader.r = last.b0.r + last.arg
       /\ Buffered(reader) = Buffered(last.b0) - last.arg
  /\ (ReaderCalled /\ last.op = "Peek") =>
       /\ Consumed(reader, rd) = Consumed(last.b0, last.pos0)
       /\ last.err = NoErr => Len(last.d) = last.arg
  /\ (ReaderCalled /\ last.op = "Pop" /\ last.err # NoErr) =>
       Consumed(reader, rd) = Consumed(last.b0, last.pos0)

C5_Witness ==
  /\ ReaderCalled /\ last.op = "Pop" /\ last.arg > 1
  /\ last.held0.n = last.arg
  /\ last.b0.r > 0
  /\ last.d = last.held0.d

\* C6: Discard(n) with 0 <= n <= Buffered() calls the stream not at all,
\* returns (n, nil) and moves r by exactly n, an error pending or not.
C6_DiscardBuffered ==
  (ReaderCalled /\ last.op = "Discard"
   /\ last.arg >= 0 /\ last.arg <= Buffered(last.b0)) =>
    /\ last.calls = 0 /\ last.fills = 0
    /\ last.n = last.arg /\ last.err = NoErr
    /\ reader = [last.b0 EXCEPT !.r = last.b0.r + last.arg]
    /\ rd = last.pos0

C6_Witness ==
  /\ ReaderCalled /\ last.op = "Discard"
  /\ last.arg > 0 /\ last.arg <= Buffered(last.b0)
  /\ last.b0.err # NoErr

\* Read(p) called with the buffer empty and len(p) >= len(buf)
LargeReadOnEmpty ==
  /\ ReaderCalled /\ last.op = "Read"
  /\ last.b0.r = last.b0.w
  /\ last.arg >= BufSize

\* C7 as stated: whenever the buffer is empty, Read(p) with
\* len(p) >= len(buf) calls the stream exactly once, returns that call's
\* count and leaves r and w alone.
C7_OneCallWheneverEmpty ==
  LargeReadOnEmpty =>
    /\ last.calls = 1
    /\ last.n = rd - last.pos0
    /\ reader.r = last.b0.r /\ reader.w = last.b0.w

\* C7 amended: so it is when no error is pending; with an error pending the
\* Read calls the stream not at all and returns 0 and that error, which it
\* clears.
C7_OneCallWhenEmptyAndNoError ==
  /\ (LargeReadOnEmpty /\ last.b0.err = NoErr) =>
       /\ last.calls = 1 /\ last.fills = 0
       /\ last.n = rd - last.pos0 /\ last.d = Chunk(last.pos0, last.n)
       /\ reader = last.b0
  /\ (LargeReadOnEmpty /\ last.b0.err # NoErr) =>
       /\ last.calls = 0
       /\ last.n = 0 /\ last.err = last.b0.err
       /\ reader = [last.b0 EXCEPT !.err = NoErr]
       /\ rd = last.pos0

C7_Witness ==
  /\ LargeReadOnEmpty /\ last.b0.err = NoErr
  /\ last.b0.r > 0
  /\ last.n > 0 /\ last.err = EOF

\* C8 as stated: Read(p) with len(p) > 0 never returns 0 with a nil error.
C8_NeverZeroNil ==
  (ReaderCalled /\ last.op = "Read" /\ last.arg > 0) =>
    ~(last.n = 0 /\ last.err = NoErr)

\* C8 amended: Read(p) with len(p) > 0 returns 0 with a nil error only on
\* the direct path (buffer empty, no error pending, len(p) >= len(buf)),
\* when the one call it makes of the stream returned 0 with a nil error.
C8_ZeroNilOnlyDirect ==
  (ReaderCalled /\ last.op = "Read" /\ last.arg > 0
   /\ last.n = 0 /\ last.err = NoErr) =>
    /\ LargeReadOnEmpty /\ last.b0.err = NoErr
    /\ last.calls = 1 /\ last.zeros = 1

C8_Witness ==
  /\ ReaderCalled /\ last.op = "Read"
  /\ last.arg > 0 /\ last.arg < BufSize
  /\ last.n = 0 /\ last.err = ErrNoProgress
  /\ last.zeros = maxConsecutiveEmptyReads

\* C9: a call that fills makes at most maxConsecutiveEmptyReads calls of
\* the stream per fill; every call of the stream that returns a byte or an
\* error is the last of its fill; and when the stream returns (0, nil) every
\* time, the call ends after exactly maxConsecutiveEmptyReads calls of the
\* stream and returns ErrNoProgress, which it clears.
C9_NoProgress ==
  (ReaderCalled /\ last.fills > 0) =>
    /\ last.calls <= maxConsecutiveEmptyReads * last.fills
    /\ last.calls - last.zeros =
         last.fills - (IF last.err = ErrNoProgress THEN 1 ELSE 0)
    /\ last.zeros = last.calls =>
         /\ last.calls = maxConsecutiveEmptyReads
         /\ last.fills = 1
         /\ last.err = ErrNoProgress
         /\ reader.err = NoErr

C9_Witness ==
  /\ ReaderCalled /\ last.op = "Peek"
  /\ last.fills = 2
  /\ last.calls = maxConsecutiveEmptyReads + 1
  /\ last.err = ErrNoProgress

\* the object called is as it was before the call
Untouched ==
  IF last.obj = "Reader"
  THEN reader = last.b0 /\ rd = last.pos0
  ELSE writer = last.b0 /\ wr = last.sink0 /\ offered = last.pos0

\* C10: Peek(n) of the Reader and of the Writer returns ErrBufferFull for
\* n > len(buf) and ErrNegativeCount for n < 0, without a call of the
\* stream, a fill or a flush, and with no change of state.
C10_PeekOutOfRange ==
  (last.op = "Peek" /\ (last.arg > BufSize \/ last.arg < 0)) =>
    /\ last.err = IF last.arg < 0 THEN ErrNegativeCount ELSE ErrBufferFull
    /\ last.calls = 0 /\ last.fills = 0
    /\ last.d = <<>>
    /\ Untouched

C10_Witness ==
  /\ last.obj = "Writer" /\ last.op = "Peek" /\ last.arg > BufSize
  /\ last.b0.n > 0 /\ last.b0.err # NoErr
  /\ last.err = ErrBufferFull


\* C11: a Flush with n bytes pending of which the sink takes k < n leaves
\* the old buf[k..n-1], in order, at buf[0..n-k-1] with Buffered() = n - k,
\* the sink k bytes longer, and returns (and stores) the sink's error, or
\* ErrShortWrite when the sink reported none.
C11_ShortFlushCompacts ==
  (WriterCalled /\ last.op = "Flush" /\ last.calls = 1
   /\ last.log[1].n < last.b0.n) =>
    LET k == last.log[1].n
    IN /\ last.log[1].len = last.b0.n
       /\ WBuffered(writer) = last.b0.n - k
       /\ Slice(writer.buf, 0, writer.n) = Slice(last.b0.buf, k, last.b0.n)
       /\ wr = last.sink0 \o Slice(last.b0.buf, 0, k)
       /\ last.err = IF last.log[1].err # NoErr THEN last.log[1].err
                     ELSE ErrShortWrite
       /\ writer.err = last.err

C11_Witness ==
  /\ WriterCalled /\ last.op = "Flush" /\ last.calls = 1
  /\ last.log[1].n > 0 /\ last.log[1].n + 1 < last.b0.n
  /\ last.log[1].err = NoErr
  /\ last.err = ErrShortWrite


\* the error a call of the sink ends a Write with: on the direct path
\* (nothing pending) the sink's own, after a flush the sink's or, for a
\* short count with none, ErrShortWrite; NoErr when it ends nothing
SinkCallError(e) ==
  IF e.err # NoErr THEN e.err
  ELSE IF e.pending > 0 /\ e.n < e.len THEN ErrShortWrite
  ELSE NoErr

\* C12: a Write(p) that returns reports 0 <= nn <= len(p); nn < len(p) comes
\* with an error and a nil error with nn = len(p); the error is the sticky
\* one when one was set (and then the sink is not called), otherwise that
\* of the first call of the sink that failed, which is the last call made.
C12_WriteCountAndError ==
  (WriterCalled /\ last.op = "Write" /\ aborted = "") =>
    /\ 0 <= last.n /\ last.n <= last.arg
    /\ last.n < last.arg => last.err # NoErr
    /\ last.err = NoErr => last.n = last.arg
    /\ last.b0.err # NoErr => last.err = last.b0.err /\ last.calls = 0
    /\ last.b0.err = NoErr =>
         /\ \A i \in 1..(Len(last.log) - 1) :
              SinkCallError(last.log[i]) = NoErr
         /\ last.err = IF last.log = <<>> THEN NoErr
                       ELSE SinkCallError(last.log[Len(last.log)])
         /\ writer.err = last.err

C12_Witness ==
  /\ WriterCalled /\ last.op = "Write" /\ aborted = ""
  /\ last.calls = 2
  /\ last.log[1].pending = 0 /\ last.log[1].n > 0
  /\ last.log[2].pending = 0 /\ last.log[2].n > 0
  /\ last.log[2].n < last.log[2].len /\ last.log[2].err = ErrSink
  /\ last.n < last.arg /\ last.err = ErrSink


\* a ReadBytes(n) that succeeds right after a successful Peek(n)
ReadBytesAfterPeek ==
  /\ ReaderCalled /\ last.op = "ReadBytes"
  /\ last.held0 # NoWindow /\ last.held0.n = last.arg
  /\ last.err = NoErr

\* C13 as stated: a ReadBytes(n) right after Peek(n) returns the bytes the
\* Peek returned and leaves r, w and the buffer as they were.
C13_SameBytesAsPeek ==
  ReadBytesAfterPeek =>
    /\ last.d = last.held0.d
    /\ reader.r = last.b0.r /\ reader.w = last.b0.w
    /\ reader.buf = last.b0.buf

\* C13 amended: a ReadBytes(n) right after Peek(n) returns the next n bytes
\* the stream hands out, which come after every byte already taken into
\* the buffer (the bytes of the Peek among them), takes the stream n bytes
\* on, and leaves r, w and the buffer as they were.
C13_NextBytesOfStream ==
  ReadBytesAfterPeek =>
    /\ last.d = Chunk(last.pos0, last.arg)
    /\ rd = last.pos0 + last.arg
    /\ last.calls >= (IF last.arg > 0 THEN 1 ELSE 0)
    /\ reader.r = last.b0.r /\ reader.w = last.b0.w
    /\ reader.buf = last.b0.buf

C13_Witness ==
  /\ ReadBytesAfterPeek
  /\ last.arg > 1
  /\ last.d # last.held0.d
  /\ Slice(reader.buf, reader.r, reader.r + last.arg) = last.held0.d


\* C14: a call of Peek, Pop, Discard, Read, ReadBytes or ReadString made
\* with an error stored on the Reader leaves that error stored unless it
\* returns it: the error is not cleared or replaced unreturned.
C14_NoErrorSwallowed ==
  (ReaderCalled /\ last.op # "ReadFixed"
   /\ last.b0.err # NoErr /\ reader.err # last.b0.err) =>
    last.err = last.b0.err


\* C15 as stated: a Write, Peek or write helper calls the sink only with
\* the buffer full.
C15_SinkOnlyWhenFull ==
  (WriterCalled /\ last.op \in {"Write", "Peek", "WriteFixed"}) =>
    \A i \in 1..Len(last.log) : last.log[i].pending = BufSize

\* C15 amended: a Write calls the sink only with the buffer full, giving it
\* the whole buffer, or with the buffer empty, giving it more than len(buf)
\* bytes of p; a Peek(n) or write helper calls it at most once, with the
\* bytes pending at the call, and only when fewer than n bytes are free,
\* be the buffer full or partly filled.
C15_SinkWhenNoRoom ==
  /\ (WriterCalled /\ last.op = "Write") =>
       \A i \in 1..Len(last.log) :
         \/ last.log[i].pending = BufSize /\ last.log[i].len = BufSize
         \/ last.log[i].pending = 0 /\ last.log[i].len > BufSize
  /\ (WriterCalled /\ last.op \in {"Peek", "WriteFixed"}) =>
       /\ Len(last.log) <= 1
       /\ \A i \in 1..Len(last.log) :
            /\ last.log[i].pending = last.b0.n
            /\ last.log[i].len = last.b0.n
            /\ last.log[i].pending > 0
            /\ Available(last.b0) < last.arg

C15_Witness ==
  /\ WriterCalled /\ last.op = "Peek"
  /\ last.calls = 1
  /\ last.log[1].pending > 0 /\ last.log[1].pending < BufSize
  /\ last.err = NoErr


\* s back to front
Reverse(s) == [i \in 1..Len(s) |-> s[Len(s) - i + 1]]

\* h with the other byte order
OtherOrder(h) == [h EXCEPT !.order = IF h.order = "BE" THEN "LE" ELSE "BE"]

\* C16: for the widths 16, 32 and 64, either order and the kinds uint and
\* float, GetX of the bytes PutX puts for v is v, every bit of a float
\* (zeros, infinities and NaNs among them) included; PutX puts as many
\* bytes as the width, and the bytes of one order are those of the other
\* order back to front.
C16_RoundTrip ==
  (codec.step = "got") =>
    /\ codec.out = codec.v
    /\ Len(codec.b) = codec.h.width
    /\ codec.b = Reverse(Put(OtherOrder(codec.h), codec.v))

C16_Witness ==
  /\ codec.step = "got"
  /\ codec.h = Helper(8, "LE", "float")
  /\ codec.v.sign = 1 /\ codec.v.exp = ExpMax(8)
  /\ codec.v.frac = <<1, 0, 65535, 1>>
  /\ codec.b = <<1, 0, 255, 255, 0, 0, 241, 255>>
  /\ codec.out = codec.v


\* C17: the buffer holds, at buf[r..w-1], the bytes of the stream that come
\* after those handed out; and a call that hands out k bytes (a Pop or a
\* helper that succeeds, a Read, a Discard) hands out the next k bytes of
\* the stream, none lost, doubled or out of order, however the stream
\* splits them and whatever fill slides; a Peek and a failed Pop or helper
\* hand out none.  A helper returns the value of the bytes it hands out.
C17_StreamPrefix ==
  /\ Slice(reader.buf, reader.r, reader.w)
       = Chunk(Consumed(reader, rd), Buffered(reader))
  /\ ReaderCalled =>
       LET c0 == Consumed(last.b0, last.pos0)
           took == Consumed(reader, rd) - c0
       IN /\ last.op = "Peek" => took = 0
          /\ last.op = "Pop" =>
               IF last.err = NoErr
               THEN took = last.arg /\ last.d = Chunk(c0, last.arg)
               ELSE took = 0
          /\ last.op = "Read" =>
               took = last.n /\ last.d = Chunk(c0, last.n)
          /\ last.op = "Discard" => took = last.n
          /\ last.op = "ReadFixed" =>
               IF last.err = NoErr
               THEN /\ took = last.h.width
                    /\ last.val = Get(last.h, Chunk(c0, last.h.width))
               ELSE took = 0

\* ReadUint32BE over a stream that hands out 1, 2, 3, 4 one byte a call
C17_Witness ==
  /\ ReaderCalled /\ last.op = "ReadFixed"
  /\ last.h = Helper(4, "BE", "uint")
  /\ last.pos0 = 0
  /\ last.calls = 4 /\ last.fills = 4
  /\ last.err = NoErr
  /\ last.val = <<258, 772>>


\* C18: the bytes the sink has taken, followed by the bytes pending at
\* buf[0..n-1], are the bytes the Writer has reported as accepted, in the
\* order of the calls; after a Flush that returns nil nothing is pending
\* and the sink has them all.
C18_SinkThenPending ==
  /\ wr \o Slice(writer.buf, 0, writer.n) = acc
  /\ (WriterCalled /\ last.op = "Flush" /\ last.err = NoErr) =>
       writer.n = 0 /\ wr = acc

\* WriteUint16LE(0x0102), then a Flush that delivers 0x02, 0x01
C18_Witness ==
  /\ WriterCalled /\ last.op = "Flush" /\ last.err = NoErr
  /\ last.calls = 1
  /\ last.sink0 = <<>> /\ last.b0.n = 2
  /\ wr = <<2, 1>> /\ acc = <<2, 1>>


\* C19: fill is never called with the buffer full after its slide, so the
\* panic "tried to fill full buffer" does not happen.
C19_NoFillOfFullBuffer == aborted # "bufio: tried to fill full buffer"

\* a call that fills a buffer whose w is at len(buf) before the slide
C19_Witness ==
  /\ ReaderCalled /\ last.fills > 0
  /\ last.b0.w = BufSize /\ last.b0.r > 0
  /\ last.b0.r < last.b0.w
  /\ aborted = ""


\* C20: every Write, Peek and Flush of the Writer returns after finitely
\* many calls of the sink, whatever counts in 0..len and errors the sink
\* answers: no call is left that does not return.
C20_WriterCallsReturn == aborted # "Write does not return"

====
